---- MODULE Spec2Model ----
(***************************************************************************)
(* A model of octotools' ChatTGI engine (src/octotools/engine/tgi.py): the *)
(* generate entry point with its tenacity retry decorator, the text and    *)
(* multimodal paths, the cache key, the content formatter and the          *)
(* response-format handling.                                               *)
(*                                                                         *)
(* Python values are records tagged by their type in field t.  Strings are *)
(* sequences of tokens; a token written with several characters (the JSON  *)
(* punctuation that json.dumps emits, the default system prompt) stands    *)
(* for those characters and never occurs inside a caller's string.         *)
(***************************************************************************)
EXTENDS Integers, Sequences, FiniteSets, TLC

VARIABLES
    cache,        \* model_string -> (cache key -> stored response): the diskcache stores
    calls,        \* number of generate calls issued so far
    pc,           \* caller -> position inside generate
    req,          \* caller -> the arguments of its current (or last) generate call
    remote,       \* caller -> what the provider answers to this attempt's request
    attempt,      \* caller -> tenacity's attempt number of the current call
    invocations,  \* caller -> client.chat.completions.create calls made by the current call
    pending,      \* caller -> the response held between the remote call and the cache write
    result,       \* caller -> what the current (or last) call gave its caller
    hist,         \* caller -> what happened inside the current call (observation only)
    prev          \* caller -> the call completed before the current one (observation only)

vars == <<cache, calls, pc, req, remote, attempt, invocations, pending, result, hist, prev>>

----------------------------------------------------------------------------
(* Bounds of the model. *)

\* generate calls issued in one run
MaxCalls == 2

----------------------------------------------------------------------------
(* Python values. *)

None == [t |-> "None"]

Str(s) == [t |-> "str", v |-> s]

Bytes(b) == [t |-> "bytes", v |-> b]

Bool(b) == [t |-> "bool", v |-> b]

PyInt(n) == [t |-> "int", v |-> n]

List(items) == [t |-> "list", v |-> items]

\* a dict, as a TLA+ function from its keys
Dict(d) == [t |-> "dict", v |-> d]

isinstance(x, type) == x.t = type

Tuple(x) == [t |-> "tuple", v |-> x]

\* An exception object: name is type(e).__name__; usage is e.completion.usage
\* of a LengthFinishReasonError and None in every other exception.
Exc(name) == [t |-> "exception", name |-> name, usage |-> None]

\* The outcome of running a piece of Python: a value, or a raised exception.
Returned(v) == [raised |-> FALSE, v |-> v]

Raised(name) == [raised |-> TRUE, v |-> Exc(name)]

----------------------------------------------------------------------------
(* Program constants. *)

DEFAULT_SYSTEM_PROMPT == <<"You are a helpful, creative, and smart assistant.">>

\* stop_after_attempt(5)
MaxAttempts == 5

----------------------------------------------------------------------------
(* Content formatting and the cache key. *)

B64Alphabet ==
    << "A","B","C","D","E","F","G","H","I","J","K","L","M","N","O","P",
       "Q","R","S","T","U","V","W","X","Y","Z","a","b","c","d","e","f",
       "g","h","i","j","k","l","m","n","o","p","q","r","s","t","u","v",
       "w","x","y","z","0","1","2","3","4","5","6","7","8","9","+","/" >>

B64Char(n) == B64Alphabet[(n % 64) + 1]

\* base64.b64encode(item).decode("utf-8"): three bytes make four characters,
\* a last group of one or two bytes is padded with "=".
RECURSIVE b64encode(_)
b64encode(b) ==
    IF Len(b) = 0 THEN <<>>
    ELSE IF Len(b) = 1 THEN
        LET n == b[1] * 65536
        IN  <<B64Char(n \div 262144), B64Char(n \div 4096), "=", "=">>
    ELSE IF Len(b) = 2 THEN
        LET n == b[1] * 65536 + b[2] * 256
        IN  <<B64Char(n \div 262144), B64Char(n \div 4096), B64Char(n \div 64), "=">>
    ELSE
        LET n == b[1] * 65536 + b[2] * 256 + b[3]
        IN  <<B64Char(n \div 262144), B64Char(n \div 4096), B64Char(n \div 64), B64Char(n)>>
            \o b64encode(SubSeq(b, 4, Len(b)))

ImagePart(b) ==
    [type |-> "image_url",
     image_url |-> [url |-> <<"data:image/jpeg;base64,">> \o b64encode(b)]]

TextPart(s) == [type |-> "text", text |-> s]

\* _format_content that passes over an item that is neither bytes nor str
\* instead of raising.
RECURSIVE _format_content_SkipsUnsupported(_)
_format_content_SkipsUnsupported(content) ==
    IF Len(content) = 0 THEN Returned(<<>>)
    ELSE
        LET item == Head(content)
            rest == _format_content_SkipsUnsupported(Tail(content))
        IN  IF isinstance(item, "bytes") THEN Returned(<<ImagePart(item.v)>> \o rest.v)
            ELSE IF isinstance(item, "str") THEN Returned(<<TextPart(item.v)>> \o rest.v)
            ELSE rest

\* _format_content that puts each part in front of the parts made so far.
RECURSIVE _format_content_Reversed(_)
_format_content_Reversed(content) ==
    IF Len(content) = 0 THEN Returned(<<>>)
    ELSE
        LET item == Head(content)
            rest == _format_content_Reversed(Tail(content))
        IN  IF isinstance(item, "bytes") THEN
                IF rest.raised THEN rest
                ELSE Returned(rest.v \o <<ImagePart(item.v)>>)
            ELSE IF isinstance(item, "str") THEN
                IF rest.raised THEN rest
                ELSE Returned(rest.v \o <<TextPart(item.v)>>)
            ELSE Raised("ValueError")

\* _format_content: the parts of the items in order; the first item that is
\* neither bytes nor str raises ValueError.
RECURSIVE _format_content(_)
_format_content(content) ==
    IF Len(content) = 0 THEN Returned(<<>>)
    ELSE
        LET item == Head(content)
            rest == _format_content(Tail(content))
        IN  IF isinstance(item, "bytes") THEN
                IF rest.raised THEN rest
                ELSE Returned(<<ImagePart(item.v)>> \o rest.v)
            ELSE IF isinstance(item, "str") THEN
                IF rest.raised THEN rest
                ELSE Returned(<<TextPart(item.v)>> \o rest.v)
            ELSE Raised("ValueError")

\* json.dumps of a str: quotes and backslashes are escaped.
RECURSIVE JsonEscape(_)
JsonEscape(s) ==
    IF Len(s) = 0 THEN <<>>
    ELSE (IF Head(s) \in {"\"", "\\"} THEN <<"\\", Head(s)>> ELSE <<Head(s)>>)
         \o JsonEscape(Tail(s))

JsonString(s) == <<"\"">> \o JsonEscape(s) \o <<"\"">>

JsonPart(p) ==
    IF p.type = "text" THEN
        <<"{", "\"type\"", ": ", "\"text\"", ", ", "\"text\"", ": ">>
        \o JsonString(p.text) \o <<"}">>
    ELSE
        <<"{", "\"type\"", ": ", "\"image_url\"", ", ", "\"image_url\"", ": ",
          "{", "\"url\"", ": ">>
        \o JsonString(p.image_url.url) \o <<"}", "}">>

RECURSIVE JsonItems(_)
JsonItems(parts) ==
    IF Len(parts) = 0 THEN <<>>
    ELSE IF Len(parts) = 1 THEN JsonPart(parts[1])
    ELSE JsonPart(parts[1]) \o <<", ">> \o JsonItems(Tail(parts))

\* json.dumps(formatted_content)
json_dumps(parts) == <<"[">> \o JsonItems(parts) \o <<"]">>

\* Python truthiness of an optional str.
Truthy(x) == x # None /\ x.v # <<>>

\* sys_prompt_arg = system_prompt if system_prompt else self.system_prompt
sys_prompt_arg(e, r) ==
    IF Truthy(r.system_prompt) THEN r.system_prompt.v ELSE e.system_prompt

\* A key that also takes in the sampling options.
text_cache_key_WithOptions(e, r) ==
    sys_prompt_arg(e, r) \o r.content.v
        \o <<ToString(r.temperature), ToString(r.max_tokens), ToString(r.top_p)>>

\* cache_key = sys_prompt_arg + prompt
text_cache_key(e, r) == sys_prompt_arg(e, r) \o r.content.v

\* cache_key = sys_prompt_arg + json.dumps(formatted_content)
multimodal_cache_key(e, r, formatted_content) ==
    sys_prompt_arg(e, r) \o json_dumps(formatted_content)

----------------------------------------------------------------------------
(* Response formats. *)

\* class HallusionVDAnswerVerification(BaseModel): final_answer: bool
HallusionVDAnswerVerification ==
    [t |-> "pydantic", v |-> [final_answer |-> "boolean"]]

\* an instance of the class
Verification(b) == [t |-> "object", v |-> [final_answer |-> b]]

is_obj_pydantic(obj) == obj.t = "pydantic"

translate_response_format(response_format) ==
    IF response_format = None THEN Returned(None)
    ELSE IF is_obj_pydantic(response_format) THEN
        Returned(Dict([type |-> "json_object", value |-> response_format.v]))
    ELSE IF isinstance(response_format, "dict") THEN Returned(response_format)
    ELSE Raised("ValueError")

\* Python's a + b for the operand types that occur: str + str and list + list
\* concatenate, every other pair raises TypeError.
Add(a, b) ==
    IF isinstance(a, "str") /\ isinstance(b, "str") THEN Returned(Str(a.v \o b.v))
    ELSE IF isinstance(a, "list") /\ isinstance(b, "list") THEN Returned(List(a.v \o b.v))
    ELSE Raised("TypeError")

JsonSuffix == Str(<<"\n\nJSON response format: ">>)

\* The payloads a provider sends in the model.
JsonTrue == <<"{\"final_answer\": true}">>

JsonYes == <<"{\"final_answer\": \"yes\"}">>

\* json.loads(content): the decoded JSON value of the two payloads.
json_loads(content) ==
    IF ~isinstance(content, "str") THEN Raised("TypeError")
    ELSE IF content.v = JsonTrue THEN Returned(Dict([final_answer |-> Bool(TRUE)]))
    ELSE IF content.v = JsonYes THEN Returned(Dict([final_answer |-> Str(<<"yes">>)]))
    ELSE Raised("JSONDecodeError")

\* response_format.model_validate_json(content): pydantic validates a bool field
\* in lax mode, where the str "yes" is read as True.
model_validate_json(response_format, content) ==
    LET json == json_loads(content)
    IN  IF json.raised THEN Raised("ValidationError")
        ELSE IF isinstance(json.v.v.final_answer, "bool") THEN
            Returned(Verification(json.v.v.final_answer.v))
        ELSE IF json.v.v.final_answer = Str(<<"yes">>) THEN Returned(Verification(TRUE))
        ELSE Raised("ValidationError")

----------------------------------------------------------------------------
(* The cache of CachedEngine (octotools/engine/base.py): a store per         *)
(* model_string.  An entry holds the stored response and, for observation,  *)
(* the request that wrote it.                                               *)

\* _check_cache(key): the stored response, None when there is none; a storage
\* error on the read degrades to a miss.
_check_cache(store, key, io_error) ==
    IF io_error \/ key \notin DOMAIN store THEN None ELSE store[key].response

\* _save_cache(key, response): insert or overwrite; a storage error on the
\* write is swallowed and leaves the store as it was.
_save_cache(store, key, response, by, io_error) ==
    IF io_error THEN store
    ELSE (key :> [response |-> response, by |-> by]) @@ store

\* One store for the engines of every model.
cache_path_Shared(e) == "m1"

\* __init__, lines 55-62: the store an engine opens is named after its
\* model_string, cache_openai_{model_string}.db; the model identifies a store
\* by that name.
cache_path(e) == e.model_string

\* What a request looks like to the code that keys the cache.
Writer(e, r) ==
    [model_string |-> e.model_string, system_prompt |-> sys_prompt_arg(e, r),
     content |-> r.content, response_format |-> r.response_format]

----------------------------------------------------------------------------
(* generate, up to the remote call. *)

\* How the code before the remote call ends: it returns v, raises v, or sends
\* the request v.  looked: _check_cache was called; hit: it gave an entry.
Return(v, looked, hit) ==
    [kind |-> "return", v |-> v, key |-> <<>>, looked |-> looked, hit |-> hit]

Raise(name, looked) ==
    [kind |-> "raise", v |-> Exc(name), key |-> <<>>, looked |-> looked, hit |-> FALSE]

Send(request, key, looked) ==
    [kind |-> "send", v |-> request, key |-> key, looked |-> looked, hit |-> FALSE]

\* The keyword arguments of client.chat.completions.create.
Request(e, r, sys, user, wire) ==
    [model |-> e.model_string,
     messages |-> << [role |-> "system", content |-> sys],
                     [role |-> "user", content |-> user] >>,
     temperature |-> r.temperature, max_tokens |-> r.max_tokens, top_p |-> r.top_p,
     response_format |-> wire]

\* _generate_text, lines 147-169 and 176-188: the cache check, then the
\* arguments of create evaluated left to right.
_generate_text_request(e, r, store, io_error) ==
    LET sys == sys_prompt_arg(e, r)
        cache_key == text_cache_key(e, r)
        cache_or_none ==
            IF e.enable_cache THEN _check_cache(store, cache_key, io_error) ELSE None
        prompt == Add(r.content, JsonSuffix)
        user == IF prompt.raised THEN prompt ELSE Add(prompt.v, r.response_format)
        wire == translate_response_format(r.response_format)
    IN  IF e.enable_cache /\ cache_or_none # None THEN Return(cache_or_none, TRUE, TRUE)
        ELSE IF r.response_format # None THEN
            IF user.raised THEN Raise(user.v.name, e.enable_cache)
            ELSE IF wire.raised THEN Raise(wire.v.name, e.enable_cache)
            ELSE Send(Request(e, r, sys, user.v, wire.v), cache_key, e.enable_cache)
        ELSE Send(Request(e, r, sys, r.content, None), cache_key, e.enable_cache)

\* _generate_multimodal, lines 224-247 and 254-263.
_generate_multimodal_request(e, r, store, io_error) ==
    LET sys == sys_prompt_arg(e, r)
        formatted_content == _format_content(r.content.v)
        cache_key == multimodal_cache_key(e, r, formatted_content.v)
        cache_or_none ==
            IF e.enable_cache THEN _check_cache(store, cache_key, io_error) ELSE None
        user == Add(List(formatted_content.v), JsonSuffix)
        wire == translate_response_format(r.response_format)
    IN  IF formatted_content.raised THEN Raise(formatted_content.v.name, FALSE)
        ELSE IF e.enable_cache /\ cache_or_none # None THEN
            Return(cache_or_none, TRUE, TRUE)
        ELSE IF r.response_format # None THEN
            IF user.raised THEN Raise(user.v.name, e.enable_cache)
            ELSE IF wire.raised THEN Raise(wire.v.name, e.enable_cache)
            ELSE Send(Request(e, r, sys, user.v, wire.v), cache_key, e.enable_cache)
        ELSE
            Send(Request(e, r, sys, List(formatted_content.v), None), cache_key,
                 e.enable_cache)

\* generate without the is_multimodal test of lines 97-101: a list always takes
\* the multimodal path.
generate_request_NoMultimodalCheck(e, r, store, io_error) ==
    IF isinstance(r.content, "str") THEN _generate_text_request(e, r, store, io_error)
    ELSE IF isinstance(r.content, "list") THEN
        _generate_multimodal_request(e, r, store, io_error)
    ELSE Return(None, FALSE, FALSE)

\* The try block of generate, lines 92-105: a str takes the text path, a list
\* the multimodal path if the engine is multimodal; any other content falls
\* off the end of the function, which returns None.
generate_request(e, r, store, io_error) ==
    IF isinstance(r.content, "str") THEN _generate_text_request(e, r, store, io_error)
    ELSE IF isinstance(r.content, "list") THEN
        IF ~e.is_multimodal THEN Raise("NotImplementedError", FALSE)
        ELSE _generate_multimodal_request(e, r, store, io_error)
    ELSE Return(None, FALSE, FALSE)

----------------------------------------------------------------------------
(* The remote call and what follows it. *)

Completion(content) == [kind |-> "completion", content |-> content, usage |-> None]

RemoteError(name, usage) == [kind |-> name, content |-> None, usage |-> usage]

\* e.completion.usage of a truncated completion
Usage == Dict([completion_tokens |-> 4000, prompt_tokens |-> 12, total_tokens |-> 4012])

\* client.chat.completions.create(...): response.choices[0].message.content,
\* or the exception the client raises.
create(answer) ==
    IF answer.kind = "completion" THEN Returned(answer.content)
    ELSE [raised |-> TRUE,
          v |-> [t |-> "exception", name |-> answer.kind, usage |-> answer.usage]]

\* _generate_text lines 170-174 and 189, _generate_multimodal lines 248-252 and
\* 264: the response made of the completion's content.
parse_response(r, content) ==
    IF r.response_format # None THEN
        IF is_obj_pydantic(r.response_format) THEN
            model_validate_json(r.response_format, content)
        ELSE json_loads(content)
    ELSE Returned(content)

\* The except clauses of generate, lines 107-136, in their order.  The first
\* reads e.completion.usage.completion_tokens, which raises AttributeError out
\* of generate when usage is None.
except_clauses(e) ==
    IF e.name = "LengthFinishReasonError" THEN
        IF e.usage = None THEN Raised("AttributeError")
        ELSE Returned(Dict([error |-> "token_limit_exceeded", message |-> e.name,
                            details |-> e.usage]))
    ELSE IF e.name = "RateLimitError" THEN
        Returned(Dict([error |-> "rate_limit", message |-> e.name,
                       details |-> Tuple(<<e.name>>)]))
    ELSE
        Returned(Dict([error |-> e.name, message |-> e.name,
                       details |-> Tuple(<<e.name>>)]))

----------------------------------------------------------------------------
(* The callers, the engines and the inputs of the model. *)

Callers == {1}

Models == {"m1", "m2"}

\* ChatTGI.__init__, lines 42-80: an engine is its configuration; with the
\* cache enabled it opens the store of its model_string.
ChatTGI(model_string, is_multimodal, enable_cache) ==
    [model_string |-> model_string, system_prompt |-> DEFAULT_SYSTEM_PROMPT,
     is_multimodal |-> is_multimodal, enable_cache |-> enable_cache]

Engines ==
    { ChatTGI("m1", TRUE, TRUE), ChatTGI("m1", FALSE, TRUE),
      ChatTGI("m1", TRUE, FALSE), ChatTGI("m2", TRUE, TRUE) }

Texts == {Str(<<"c">>), Str(<<"b", "c">>)}

Contents ==
    Texts \cup
    { List(<<Str(<<"a">>), Bytes(<<255>>)>>),
      List(<<Str(<<"a">>), PyInt(7)>>),
      PyInt(7) }

SystemPrompts == {None, Str(<<"a">>), Str(<<"a", "b">>)}

ResponseFormats ==
    {None, HallusionVDAnswerVerification, Dict([type |-> "json_object"]),
     Str(<<"json">>)}

\* generate(content) on engine e with the defaults of lines 141-145:
\* system_prompt=None, temperature=0, max_tokens=4000, top_p=0.99 (in
\* hundredths), response_format=None.
Defaults(e, content) ==
    [engine |-> e, content |-> content, system_prompt |-> None,
     response_format |-> None, temperature |-> 0, max_tokens |-> 4000, top_p |-> 99]

\* The calls of the model: every content on every engine of model m1 and a
\* text on the engine of model m2, with the default arguments; on the first
\* engine also a list whose first item is unsupported, every system prompt
\* with every text, every response format with a text, a pydantic class with
\* a list, and a text with other sampling options.
Requests ==
    LET e == ChatTGI("m1", TRUE, TRUE)
        image == List(<<Str(<<"a">>), Bytes(<<255>>)>>)
    IN  { Defaults(eng, c) : eng \in {g \in Engines : g.model_string = "m1"},
                             c \in Contents }
        \cup { Defaults(ChatTGI("m2", TRUE, TRUE), Str(<<"c">>)) }
        \cup { [Defaults(e, c) EXCEPT !.system_prompt = s] :
                 c \in Texts, s \in SystemPrompts }
        \cup { [Defaults(e, Str(<<"c">>)) EXCEPT !.response_format = f] :
                 f \in ResponseFormats }
        \cup { [Defaults(e, image) EXCEPT !.response_format =
                                            HallusionVDAnswerVerification] }
        \cup { [Defaults(e, Str(<<"c">>)) EXCEPT !.temperature = 1],
               [Defaults(e, Str(<<"c">>)) EXCEPT !.max_tokens = 100, !.top_p = 50] }
        \cup { Defaults(e, List(<<PyInt(7), Str(<<"a">>)>>)) }

Answers ==
    { Completion(Str(JsonTrue)), Completion(Str(JsonYes)), Completion(None),
      RemoteError("RateLimitError", None), RemoteError("APIConnectionError", None),
      RemoteError("LengthFinishReasonError", Usage),
      RemoteError("LengthFinishReasonError", None) }

\* What is observed of a call: its cache check hit, a storage error occurred on
\* its lookup or on its write, it called _save_cache, and the stores as they
\* were when it began.
NoHist ==
    [hit |-> FALSE, lookup_io_error |-> FALSE, save_io_error |-> FALSE,
     saved |-> FALSE, cache0 |-> <<>>]

NoCall == [valid |-> FALSE]

Init ==
    /\ cache = [m \in Models |-> <<>>]
    /\ calls = 0
    /\ pc = [t \in Callers |-> "idle"]
    /\ req = [t \in Callers |-> None]
    /\ remote = [t \in Callers |-> None]
    /\ attempt = [t \in Callers |-> 0]
    /\ invocations = [t \in Callers |-> 0]
    /\ pending = [t \in Callers |-> None]
    /\ result = [t \in Callers |-> None]
    /\ hist = [t \in Callers |-> NoHist]
    /\ prev = [t \in Callers |-> NoCall]

----------------------------------------------------------------------------
(* The steps of a generate call. *)

\* A caller calls generate(content, **kwargs) on an engine; answer is how the
\* provider answers the first attempt's request.
Call(t, r, answer) ==
    /\ pc[t] = "idle"
    /\ calls < MaxCalls
    /\ calls' = calls + 1
    /\ prev' = [prev EXCEPT ![t] =
                  IF req[t] = None THEN NoCall
                  ELSE [valid |-> TRUE, req |-> req[t], result |-> result[t],
                        invocations |-> invocations[t], hist |-> hist[t]]]
    /\ req' = [req EXCEPT ![t] = r]
    /\ remote' = [remote EXCEPT ![t] = answer]
    /\ attempt' = [attempt EXCEPT ![t] = 1]
    /\ invocations' = [invocations EXCEPT ![t] = 0]
    /\ hist' = [hist EXCEPT ![t] = [NoHist EXCEPT !.cache0 = cache]]
    /\ pc' = [pc EXCEPT ![t] = "generate"]
    /\ UNCHANGED <<cache, pending, result>>

\* The tenacity wrapper, line 82, at the end of an attempt: a returned value
\* is the call's result; an exception that left generate is retried after a
\* wait, and on the last attempt RetryError is raised to the caller.
AttemptEnd(t, out) ==
    IF ~out.raised THEN
        /\ pc' = [pc EXCEPT ![t] = "done"]
        /\ result' = [result EXCEPT ![t] = out]
    ELSE IF attempt[t] >= MaxAttempts THEN
        /\ pc' = [pc EXCEPT ![t] = "done"]
        /\ result' = [result EXCEPT ![t] = Raised("RetryError")]
    ELSE
        /\ pc' = [pc EXCEPT ![t] = "wait"]
        /\ UNCHANGED result

\* An attempt runs generate up to the remote call: content dispatch,
\* formatting, the cache check and the arguments of the request.
Generate(t, io_error) ==
    /\ pc[t] = "generate"
    /\ LET e == req[t].engine
           b == generate_request(e, req[t], cache[cache_path(e)], io_error)
       IN  /\ hist' = [hist EXCEPT ![t].hit = b.hit,
                                   ![t].lookup_io_error = @ \/ (io_error /\ b.looked)]
           /\ IF b.kind = "send" THEN
                  /\ pc' = [pc EXCEPT ![t] = "create"]
                  /\ UNCHANGED result
              ELSE IF b.kind = "return" THEN AttemptEnd(t, Returned(b.v))
              ELSE AttemptEnd(t, except_clauses(b.v))
    /\ UNCHANGED <<cache, calls, req, remote, attempt, invocations, pending, prev>>

\* cache_key of the current call of t, line 150 or line 228.
CacheKey(t) ==
    IF isinstance(req[t].content, "str") THEN text_cache_key(req[t].engine, req[t])
    ELSE multimodal_cache_key(req[t].engine, req[t],
                              _format_content(req[t].content.v).v)

\* Create with the failure of the remote call written to the cache.
Create_CachesFailure(t) ==
    /\ pc[t] = "create"
    /\ invocations' = [invocations EXCEPT ![t] = @ + 1]
    /\ LET e == req[t].engine
           content == create(remote[t])
           response == IF content.raised THEN content
                       ELSE parse_response(req[t], content.v)
           failure == except_clauses(response.v)
       IN  IF response.raised THEN
               /\ AttemptEnd(t, failure)
               /\ cache' = [cache EXCEPT ![cache_path(e)] =
                               IF e.enable_cache /\ ~failure.raised
                               THEN _save_cache(@, CacheKey(t), failure.v,
                                                Writer(e, req[t]), FALSE)
                               ELSE @]
               /\ UNCHANGED pending
           ELSE IF e.enable_cache THEN
               /\ pc' = [pc EXCEPT ![t] = "save"]
               /\ pending' = [pending EXCEPT ![t] = response.v]
               /\ UNCHANGED <<result, cache>>
           ELSE
               /\ AttemptEnd(t, response)
               /\ UNCHANGED <<pending, cache>>
    /\ UNCHANGED <<calls, req, remote, attempt, hist, prev>>

\* Create that saves the response whether or not the cache is enabled.
Create_AlwaysSaves(t) ==
    /\ pc[t] = "create"
    /\ invocations' = [invocations EXCEPT ![t] = @ + 1]
    /\ LET content == create(remote[t])
           response == IF content.raised THEN content
                       ELSE parse_response(req[t], content.v)
       IN  IF response.raised THEN
               /\ AttemptEnd(t, except_clauses(response.v))
               /\ UNCHANGED pending
           ELSE
               /\ pc' = [pc EXCEPT ![t] = "save"]
               /\ pending' = [pending EXCEPT ![t] = response.v]
               /\ UNCHANGED result
    /\ UNCHANGED <<cache, calls, req, remote, attempt, hist, prev>>

\* The remote call returns or raises, and the response is parsed.
Create(t) ==
    /\ pc[t] = "create"
    /\ invocations' = [invocations EXCEPT ![t] = @ + 1]
    /\ LET e == req[t].engine
           content == create(remote[t])
           response == IF content.raised THEN content
                       ELSE parse_response(req[t], content.v)
       IN  IF response.raised THEN
               /\ AttemptEnd(t, except_clauses(response.v))
               /\ UNCHANGED pending
           ELSE IF e.enable_cache THEN
               /\ pc' = [pc EXCEPT ![t] = "save"]
               /\ pending' = [pending EXCEPT ![t] = response.v]
               /\ UNCHANGED result
           ELSE
               /\ AttemptEnd(t, response)
               /\ UNCHANGED pending
    /\ UNCHANGED <<cache, calls, req, remote, attempt, hist, prev>>

\* SaveCache without the write.
SaveCache_NoWrite(t, io_error) ==
    /\ pc[t] = "save"
    /\ hist' = [hist EXCEPT ![t].saved = TRUE,
                            ![t].save_io_error = @ \/ io_error]
    /\ AttemptEnd(t, Returned(pending[t]))
    /\ pending' = [pending EXCEPT ![t] = None]
    /\ UNCHANGED <<cache, calls, req, remote, attempt, invocations, prev>>

\* SaveCache returning what the store holds after the write instead of the
\* response.
SaveCache_ReturnsStored(t, io_error) ==
    /\ pc[t] = "save"
    /\ LET e == req[t].engine
           store == _save_cache(cache[cache_path(e)], CacheKey(t), pending[t],
                                Writer(e, req[t]), io_error)
       IN  /\ cache' = [cache EXCEPT ![cache_path(e)] = store]
           /\ AttemptEnd(t, Returned(_check_cache(store, CacheKey(t), FALSE)))
    /\ hist' = [hist EXCEPT ![t].saved = TRUE,
                            ![t].save_io_error = @ \/ io_error]
    /\ pending' = [pending EXCEPT ![t] = None]
    /\ UNCHANGED <<calls, req, remote, attempt, invocations, prev>>

\* SaveCache that leaves an entry that is already there.
SaveCache_InsertOnly(t, io_error) ==
    /\ pc[t] = "save"
    /\ LET e == req[t].engine
       IN  cache' = [cache EXCEPT ![cache_path(e)] =
                        IF CacheKey(t) \in DOMAIN @ THEN @
                        ELSE _save_cache(@, CacheKey(t), pending[t], Writer(e, req[t]),
                                         io_error)]
    /\ hist' = [hist EXCEPT ![t].saved = TRUE,
                            ![t].save_io_error = @ \/ io_error]
    /\ AttemptEnd(t, Returned(pending[t]))
    /\ pending' = [pending EXCEPT ![t] = None]
    /\ UNCHANGED <<calls, req, remote, attempt, invocations, prev>>

\* _generate_text lines 191-193, _generate_multimodal lines 266-268:
\* self._save_cache(cache_key, response); return response.
SaveCache(t, io_error) ==
    /\ pc[t] = "save"
    /\ LET e == req[t].engine
       IN  cache' = [cache EXCEPT ![cache_path(e)] =
                        _save_cache(@, CacheKey(t), pending[t], Writer(e, req[t]),
                                    io_error)]
    /\ hist' = [hist EXCEPT ![t].saved = TRUE,
                            ![t].save_io_error = @ \/ io_error]
    /\ AttemptEnd(t, Returned(pending[t]))
    /\ pending' = [pending EXCEPT ![t] = None]
    /\ UNCHANGED <<calls, req, remote, attempt, invocations, prev>>

\* Retry that does not count the attempt.
Retry_NoCount(t, answer) ==
    /\ pc[t] = "wait"
    /\ remote' = [remote EXCEPT ![t] = answer]
    /\ pc' = [pc EXCEPT ![t] = "generate"]
    /\ UNCHANGED <<cache, calls, req, attempt, invocations, pending, result, hist, prev>>

\* tenacity's wait is over: generate runs again; answer is how the provider
\* answers the new attempt's request.
Retry(t, answer) ==
    /\ pc[t] = "wait"
    /\ attempt' = [attempt EXCEPT ![t] = @ + 1]
    /\ remote' = [remote EXCEPT ![t] = answer]
    /\ pc' = [pc EXCEPT ![t] = "generate"]
    /\ UNCHANGED <<cache, calls, req, invocations, pending, result, hist, prev>>

\* generate has returned (or raised) to its caller, which is free to call
\* again; nothing of the call is kept for observation.
Done(t) ==
    /\ pc[t] = "done"
    /\ pc' = [pc EXCEPT ![t] = "idle"]
    /\ req' = [req EXCEPT ![t] = None]
    /\ remote' = [remote EXCEPT ![t] = None]
    /\ attempt' = [attempt EXCEPT ![t] = 0]
    /\ invocations' = [invocations EXCEPT ![t] = 0]
    /\ result' = [result EXCEPT ![t] = None]
    /\ hist' = [hist EXCEPT ![t] = NoHist]
    /\ prev' = [prev EXCEPT ![t] = NoCall]
    /\ UNCHANGED <<cache, calls, pending>>

\* The same, with the arguments, the result and the network invocations of
\* the call kept, and what was observed of its cache hit and cache write, so
\* that the caller's next call can be compared with it.
DoneRemembered(t) ==
    /\ pc[t] = "done"
    /\ pc' = [pc EXCEPT ![t] = "idle"]
    /\ remote' = [remote EXCEPT ![t] = None]
    /\ attempt' = [attempt EXCEPT ![t] = 0]
    /\ hist' = [hist EXCEPT ![t].cache0 = <<>>, ![t].lookup_io_error = FALSE]
    /\ prev' = [prev EXCEPT ![t] = NoCall]
    /\ UNCHANGED <<cache, calls, req, invocations, pending, result>>

\* Calls in sequence; the provider may answer each attempt of a call
\* differently.
Next ==
    \E t \in Callers :
        \/ \E r \in Requests, answer \in Answers : Call(t, r, answer)
        \/ \E io_error \in BOOLEAN : Generate(t, io_error)
        \/ Create(t)
        \/ \E io_error \in BOOLEAN : SaveCache(t, io_error)
        \/ \E answer \in Answers : Retry(t, answer)
        \/ Done(t)

Spec == Init /\ [][Next]_vars

\* Calls in sequence, each compared with the one before it; the provider
\* answers every attempt of a call alike.
NextRepeat ==
    \E t \in Callers :
        \/ \E r \in Requests, answer \in Answers : Call(t, r, answer)
        \/ \E io_error \in BOOLEAN : Generate(t, io_error)
        \/ Create(t)
        \/ \E io_error \in BOOLEAN : SaveCache(t, io_error)
        \/ Retry(t, remote[t])
        \/ DoneRemembered(t)

SpecRepeat == Init /\ [][NextRepeat]_vars

----------------------------------------------------------------------------
(* What a caller receives. *)

\* A Failure: the dict with an "error" key that the except clauses return.
IsFailure(res) ==
    /\ ~res.raised
    /\ isinstance(res.v, "dict")
    /\ "error" \in DOMAIN res.v.v

\* A Success: a returned payload, a str or an instance of the schema's class.
IsSuccess(res) ==
    /\ ~res.raised
    /\ res.v.t \in {"str", "object"}

\* The entry under the key of t's current call in its engine's store.
Entry(t) == cache[cache_path(req[t].engine)][CacheKey(t)]

HasEntry(t) == CacheKey(t) \in DOMAIN cache[cache_path(req[t].engine)]

\* t has completed a call and, before it, another call with the same arguments
\* on the same engine.
Repeated(t) ==
    /\ pc[t] = "done"
    /\ prev[t].valid
    /\ prev[t].req = req[t]

----------------------------------------------------------------------------
(* The claims. *)

\* C1, as stated: with caching enabled, two generate calls in sequence on the
\* same engine with identical inputs make exactly one network invocation in
\* total, and the second call's result equals the first's.
C1_TwoCallsOneInvocation ==
    \A t \in Callers :
        (Repeated(t) /\ req[t].engine.enable_cache)
            => /\ prev[t].invocations + invocations[t] = 1
               /\ result[t] = prev[t].result

\* C1, amended: with caching enabled and no storage error on the first call's
\* cache write or the second call's cache lookup, if the first of two
\* identical calls in sequence returns a Success payload, the second call
\* makes no network invocation and returns the first call's result.
C1_RepeatServedFromCache ==
    \A t \in Callers :
        (/\ Repeated(t)
         /\ req[t].engine.enable_cache
         /\ IsSuccess(prev[t].result)
         /\ ~prev[t].hist.save_io_error
         /\ ~hist[t].lookup_io_error)
            => /\ invocations[t] = 0
               /\ result[t] = prev[t].result

\* C1's case: a repeated call answered from the entry its first call wrote
\* after one network invocation.
C1_Witness ==
    \E t \in Callers :
        /\ Repeated(t)
        /\ req[t].engine.enable_cache
        /\ IsSuccess(prev[t].result)
        /\ prev[t].invocations = 1
        /\ prev[t].hist.saved
        /\ hist[t].hit
        /\ invocations[t] = 0

\* C2: when the remote call answers every attempt with a transient error (rate
\* limiting, a connection failure), one generate call makes exactly MaxAttempts
\* network invocations and then returns a Failure.
C2_RetryCeiling ==
    \A t \in Callers :
        (/\ pc[t] = "done"
         /\ invocations[t] >= 1
         /\ remote[t].kind \in {"RateLimitError", "APIConnectionError"})
            => /\ invocations[t] = MaxAttempts
               /\ IsFailure(result[t])

\* C3: a generate call that ends in a failure (an error dict, or an exception
\* raised to the caller) never called _save_cache and leaves every store as it
\* was when the call began.
C3_FailureLeavesCache ==
    \A t \in Callers :
        (pc[t] = "done" /\ (result[t].raised \/ IsFailure(result[t])))
            => /\ ~hist[t].saved
               /\ cache = hist[t].cache0

\* C3's case: a call on a caching engine failed after a network invocation
\* while the store held an entry under its key.
C3_Witness ==
    \E t \in Callers :
        /\ pc[t] = "done"
        /\ IsFailure(result[t])
        /\ req[t].engine.enable_cache
        /\ invocations[t] = 1
        /\ HasEntry(t)

\* C4: generate never raises to its caller and always returns a CallResult, a
\* Success or a Failure, whatever the type of the content and whatever the
\* provider does.
C4_AlwaysCallResult ==
    \A t \in Callers :
        pc[t] = "done" => (IsSuccess(result[t]) \/ IsFailure(result[t]))

\* C5: with caching enabled, a request with a response format is never
\* answered from a cache entry written by a request with another response
\* format or none.
C5_SchemaInKey ==
    \A t \in Callers :
        (pc[t] = "done" /\ hist[t].hit /\ req[t].response_format # None)
            => Entry(t).by.response_format = req[t].response_format

\* C6: a request is never answered from a cache entry written by a request
\* with another (effective system prompt, content) pair.
C6_KeyInjective ==
    \A t \in Callers :
        (pc[t] = "done" /\ hist[t].hit)
            => /\ Entry(t).by.system_prompt = sys_prompt_arg(req[t].engine, req[t])
               /\ Entry(t).by.content = req[t].content

\* C7: a generate call with the schema class HallusionVDAnswerVerification and
\* a text that misses the cache, to which the provider answers the conforming
\* payload {"final_answer": true}, returns the object with final_answer true.
C7_TypedSuccess ==
    \A t \in Callers :
        (/\ pc[t] = "done"
         /\ isinstance(req[t].content, "str")
         /\ req[t].response_format = HallusionVDAnswerVerification
         /\ ~hist[t].hit
         /\ remote[t] = Completion(Str(JsonTrue)))
            => result[t] = Returned(Verification(TRUE))

\* C8: a generate call with the schema class and a text that misses the cache,
\* to which the provider answers the payload {"final_answer": "yes"}, returns
\* a Failure of kind ValidationError after one network invocation, without a
\* retry and without a cache write.
C8_TypedFailure ==
    \A t \in Callers :
        (/\ pc[t] = "done"
         /\ isinstance(req[t].content, "str")
         /\ req[t].response_format = HallusionVDAnswerVerification
         /\ ~hist[t].hit
         /\ remote[t] = Completion(Str(JsonYes)))
            => /\ IsFailure(result[t])
               /\ result[t].v.v.error = "ValidationError"
               /\ invocations[t] = 1
               /\ attempt[t] = 1
               /\ ~hist[t].saved

\* C9: a generate call whose cache lookup met a storage error goes on to the
\* remote invocation and returns what the remote call gave: the response, or
\* the Failure of the remote error.
C9_LookupErrorIsMiss ==
    \A t \in Callers :
        (pc[t] = "done" /\ hist[t].lookup_io_error)
            => /\ invocations[t] >= 1
               /\ ~hist[t].hit
               /\ \/ result[t] = Returned(remote[t].content)
                  \/ /\ remote[t].kind # "completion"
                     /\ \/ result[t].raised
                        \/ result[t] = except_clauses(create(remote[t]).v)

C11_TokenLimit ==
    \A t \in Callers :
        (/\ pc[t] = "done"
         /\ invocations[t] >= 1
         /\ remote[t].kind = "LengthFinishReasonError")
            => /\ IsFailure(result[t])
               /\ result[t].v.v.error = "token_limit_exceeded"
               /\ DOMAIN result[t].v.v.details.v
                      = {"completion_tokens", "prompt_tokens", "total_tokens"}
               /\ invocations[t] = 1
               /\ attempt[t] = 1
               /\ ~hist[t].saved
               /\ cache = hist[t].cache0


\* C12: a list content given to an engine whose multimodal support is off
\* fails with NotImplementedError (the code's NotSupported) with no network
\* invocation, in a single attempt, with no cache hit and no cache write,
\* whatever the cache holds.
C12_ListNotSupported ==
    \A t \in Callers :
        (/\ pc[t] = "done"
         /\ isinstance(req[t].content, "list")
         /\ ~req[t].engine.is_multimodal)
            => /\ IsFailure(result[t])
               /\ result[t].v.v.error = "NotImplementedError"
               /\ invocations[t] = 0
               /\ attempt[t] = 1
               /\ ~hist[t].hit
               /\ ~hist[t].saved
               /\ cache = hist[t].cache0

\* The call is refused although the store of its model holds an entry under
\* the key the multimodal path would look up.
C12_Witness ==
    \E t \in Callers :
        /\ pc[t] = "done"
        /\ req[t].content = List(<<Str(<<"a">>), Bytes(<<255>>)>>)
        /\ ~req[t].engine.is_multimodal
        /\ req[t].engine.enable_cache
        /\ HasEntry(t)
        /\ IsFailure(result[t])
        /\ invocations[t] = 0


\* An item of a list content that is neither str nor bytes.
HasUnsupportedItem(content) ==
    /\ isinstance(content, "list")
    /\ \E i \in 1..Len(content.v) :
           ~isinstance(content.v[i], "str") /\ ~isinstance(content.v[i], "bytes")

\* How a call refused for an unsupported item ends.
FailsUnsupported(t) ==
    /\ IsFailure(result[t])
    /\ result[t].v.v.error = "ValueError"
    /\ invocations[t] = 0
    /\ attempt[t] = 1
    /\ ~hist[t].hit
    /\ ~hist[t].saved
    /\ cache = hist[t].cache0

\* C13, as stated: a list content with an item of an unsupported type fails
\* with ValueError (the code's UnsupportedContentType) before any network
\* call, with no retry and no cache write, wherever the item stands.
C13_UnsupportedItem ==
    \A t \in Callers :
        (pc[t] = "done" /\ HasUnsupportedItem(req[t].content))
            => FailsUnsupported(t)

\* C13, amended: the same on an engine whose multimodal support is on; with it
\* off the list is refused with NotImplementedError before its items are
\* looked at, also with no network invocation, retry or cache write.
C13_UnsupportedItemMultimodal ==
    \A t \in Callers :
        (pc[t] = "done" /\ HasUnsupportedItem(req[t].content))
            => IF req[t].engine.is_multimodal THEN FailsUnsupported(t)
               ELSE /\ IsFailure(result[t])
                    /\ result[t].v.v.error = "NotImplementedError"
                    /\ invocations[t] = 0
                    /\ attempt[t] = 1
                    /\ ~hist[t].saved
                    /\ cache = hist[t].cache0

\* Two calls on the multimodal engine with the cache on were refused, one for
\* its last item and one for its first.
C13_Witness ==
    \E t \in Callers :
        /\ pc[t] = "done"
        /\ prev[t].valid
        /\ prev[t].req = Defaults(ChatTGI("m1", TRUE, TRUE),
                                  List(<<Str(<<"a">>), PyInt(7)>>))
        /\ req[t] = Defaults(ChatTGI("m1", TRUE, TRUE),
                             List(<<PyInt(7), Str(<<"a">>)>>))
        /\ prev[t].invocations = 0
        /\ prev[t].result.v.v.error = "ValueError"
        /\ FailsUnsupported(t)


\* The call of t and the call before it neither hit the cache nor wrote it.
NoCacheTraffic(t) ==
    /\ ~hist[t].hit
    /\ ~hist[t].saved
    /\ ~prev[t].hist.hit
    /\ ~prev[t].hist.saved
    /\ cache = hist[t].cache0

\* C14, as stated: with the cache off, two identical calls each make their
\* own network invocation, two in all, and no cache entry is read or written.
C14_TwoCallsTwoInvocations ==
    \A t \in Callers :
        (Repeated(t) /\ ~req[t].engine.enable_cache)
            => /\ prev[t].invocations = 1
               /\ invocations[t] = 1
               /\ NoCacheTraffic(t)

\* C14, amended: with the cache off, the second of two identical calls makes
\* a network invocation of its own whenever the first made one (and none when
\* the first was refused before the remote call), and neither call reads or
\* writes a cache entry.
C14_NoCacheOwnInvocations ==
    \A t \in Callers :
        (Repeated(t) /\ ~req[t].engine.enable_cache)
            => /\ prev[t].invocations >= 1 => invocations[t] >= 1
               /\ prev[t].invocations = 0 => invocations[t] = 0
               /\ NoCacheTraffic(t)

\* Two identical successful calls with the cache off, one invocation each.
C14_Witness ==
    \E t \in Callers :
        /\ Repeated(t)
        /\ ~req[t].engine.enable_cache
        /\ IsSuccess(prev[t].result)
        /\ IsSuccess(result[t])
        /\ prev[t].invocations = 1
        /\ invocations[t] = 1
        /\ NoCacheTraffic(t)


----------------------------------------------------------------------------
(* A pool of workers calling one engine, as the threads that score_results  *)
(* starts do.                                                               *)

Workers == {1, 2}

\* ResultScorer.__init__: the engine of the scorer, not multimodal, with the
\* cache enabled.
PoolEngine == ChatTGI("m1", FALSE, TRUE)

\* The calls of the workers: two prompts, and the first with the response
\* format that answer_verification passes.
PoolRequests ==
    { Defaults(PoolEngine, c) : c \in Texts }
    \cup { [Defaults(PoolEngine, Str(<<"c">>)) EXCEPT
               !.response_format = HallusionVDAnswerVerification] }

\* How the provider answers a worker's request: one of two completions, a
\* rate limit, or a truncation without usage, which makes the call retry.
PoolAnswers ==
    { Completion(Str(JsonTrue)), Completion(Str(JsonYes)),
      RemoteError("RateLimitError", None),
      RemoteError("LengthFinishReasonError", None) }

InitPool ==
    /\ cache = [m \in Models |-> <<>>]
    /\ calls = 0
    /\ pc = [t \in Workers |-> "idle"]
    /\ req = [t \in Workers |-> None]
    /\ remote = [t \in Workers |-> None]
    /\ attempt = [t \in Workers |-> 0]
    /\ invocations = [t \in Workers |-> 0]
    /\ pending = [t \in Workers |-> None]
    /\ result = [t \in Workers |-> None]
    /\ hist = [t \in Workers |-> NoHist]
    /\ prev = [t \in Workers |-> NoCall]

\* The steps of the workers interleave; a step is a whole stretch of generate
\* between two uses of the store or of the network.
NextPool ==
    \E t \in Workers :
        \/ \E r \in PoolRequests, answer \in PoolAnswers : Call(t, r, answer)
        \/ \E io_error \in BOOLEAN : Generate(t, io_error)
        \/ Create(t)
        \/ \E io_error \in BOOLEAN : SaveCache(t, io_error)
        \/ \E answer \in PoolAnswers : Retry(t, answer)
        \/ Done(t)

SpecPool == InitPool /\ [][NextPool]_vars

\* The step is a write of t's response to the store that succeeds.
Writes(t) ==
    /\ pc[t] = "save"
    /\ pc'[t] = "done"
    /\ ~hist'[t].save_io_error

\* C15: a cache entry is immutable once written: in any interleaving of the
\* calls of the workers on one model, no write lands on a key that already has
\* an entry, so every key is written at most once and never overwritten.
\* Stated for the calls whose lookup met no storage error.
C15_WriteOnce ==
    [][\A t \in DOMAIN pc :
          (Writes(t) /\ ~hist[t].lookup_io_error) => ~HasEntry(t)]_vars


\* C16: the cache is scoped by model: a response served from the cache on an
\* engine was written by an engine of the same model_string, never by an engine
\* of another model.
C16_ModelScoped ==
    \A t \in Callers :
        (pc[t] = "done" /\ hist[t].hit)
            => /\ HasEntry(t)
               /\ Entry(t).by.model_string = req[t].engine.model_string
               /\ result[t] = Returned(Entry(t).response)

\* A call on the engine of model m2 missed and went to the network although
\* the store of model m1 holds an entry under the very same key.
C16_Witness ==
    \E t \in Callers :
        /\ pc[t] = "done"
        /\ req[t].engine.model_string = "m2"
        /\ req[t].engine.enable_cache
        /\ CacheKey(t) \in DOMAIN cache["m1"]
        /\ cache["m1"][CacheKey(t)].by.model_string = "m1"
        /\ hist[t].cache0 = cache
        /\ ~hist[t].lookup_io_error
        /\ ~hist[t].hit
        /\ invocations[t] = 1


----------------------------------------------------------------------------
(* Termination. *)

\* A step of the call that t is running.
Step(t) ==
    \/ \E io_error \in BOOLEAN : Generate(t, io_error)
    \/ Create(t)
    \/ \E io_error \in BOOLEAN : SaveCache(t, io_error)
    \/ \E answer \in Answers : Retry(t, answer)

\* A call for every way through generate: a text, a list, a list with an
\* unsupported item and an int on each engine of model m1, and a text with a
\* response format.
LiveRequests ==
    { Defaults(eng, c) : eng \in {g \in Engines : g.model_string = "m1"},
                         c \in Contents \ {Str(<<"b", "c">>)} }
    \cup { [Defaults(ChatTGI("m1", TRUE, TRUE), Str(<<"c">>)) EXCEPT
               !.response_format = HallusionVDAnswerVerification] }

NextLive ==
    \E t \in Callers :
        \/ \E r \in LiveRequests, answer \in Answers : Call(t, r, answer)
        \/ Step(t)
        \/ Done(t)

\* Calls in sequence, run by a thread that keeps running: the code before and
\* after the remote call has no loop, the client ends the remote call with a
\* completion or an exception, and tenacity's wait is at most 5 seconds
\* (wait_random_exponential(min=1, max=5), line 82).
SpecLive == Init /\ [][NextLive]_vars /\ \A t \in Callers : WF_vars(Step(t))

\* C17: every generate call ends, returning or raising to its caller, after at
\* most MaxAttempts attempts, however the provider answers each attempt.
C17_Terminates ==
    \A t \in Callers :
        /\ [](attempt[t] <= MaxAttempts /\ invocations[t] <= attempt[t])
        /\ (pc[t] = "generate" /\ attempt[t] = 1) ~> (pc[t] = "done")

\* A call that ended at its last attempt, every attempt having gone to the
\* network.
C17_Witness ==
    \E t \in Callers :
        /\ pc[t] = "done"
        /\ attempt[t] = MaxAttempts
        /\ invocations[t] = MaxAttempts


----------------------------------------------------------------------------
(* _format_content on its own. *)

\* items in a content list given to _format_content
MaxItems == 3

\* The items of a content list: texts, images of one, two and four bytes, and
\* an item of an unsupported type.
Items ==
    { Str(<<"a">>), Str(<<"b">>), Bytes(<<255>>), Bytes(<<1, 2>>),
      Bytes(<<77, 97, 110, 33>>), PyInt(7) }

ItemSeqs == UNION { [1..n -> Items] : n \in 0..MaxItems }

\* A caller holds a list of items.
InitFormat ==
    /\ cache = [m \in Models |-> <<>>]
    /\ calls = 0
    /\ pc = [t \in Callers |-> "idle"]
    /\ req \in { [t \in Callers |-> Defaults(ChatTGI("m1", TRUE, FALSE), List(s))] :
                   s \in ItemSeqs }
    /\ remote = [t \in Callers |-> None]
    /\ attempt = [t \in Callers |-> 0]
    /\ invocations = [t \in Callers |-> 0]
    /\ pending = [t \in Callers |-> None]
    /\ result = [t \in Callers |-> None]
    /\ hist = [t \in Callers |-> NoHist]
    /\ prev = [t \in Callers |-> NoCall]

\* self._format_content(content), as line 224 calls it.
FormatContent(t) ==
    /\ pc[t] = "idle"
    /\ result' = [result EXCEPT ![t] = _format_content(req[t].content.v)]
    /\ pc' = [pc EXCEPT ![t] = "formatted"]
    /\ UNCHANGED <<cache, calls, req, remote, attempt, invocations, pending, hist, prev>>

NextFormat == \E t \in Callers : FormatContent(t)

SpecFormat == InitFormat /\ [][NextFormat]_vars

\* The place of a character in the base64 alphabet.
B64Index(c) == CHOOSE i \in 0..63 : B64Alphabet[i + 1] = c

\* The bytes that a base64 text stands for: four characters make three bytes,
\* fewer where the group ends in "=".
RECURSIVE b64decode(_)
b64decode(s) ==
    IF Len(s) = 0 THEN <<>>
    ELSE
        LET n == B64Index(s[1]) * 262144 + B64Index(s[2]) * 4096
                 + (IF s[3] = "=" THEN 0 ELSE B64Index(s[3]) * 64)
                 + (IF s[4] = "=" THEN 0 ELSE B64Index(s[4]))
            b1 == n \div 65536
            b2 == (n \div 256) % 256
            b3 == n % 256
        IN  IF s[3] = "=" THEN <<b1>>
            ELSE IF s[4] = "=" THEN <<b1, b2>>
            ELSE <<b1, b2, b3>> \o b64decode(SubSeq(s, 5, Len(s)))

\* C18: formatting a list of str and bytes items gives one part per item, in
\* the order of the items: a text part with the str unchanged, an image part
\* whose URL is a base64 data URL that decodes to the bytes.
C18_FormatPreservesOrder ==
    \A t \in Callers :
        LET items == req[t].content.v
            parts == result[t].v
        IN  (/\ pc[t] = "formatted"
             /\ \A i \in 1..Len(items) :
                    isinstance(items[i], "str") \/ isinstance(items[i], "bytes"))
                => /\ ~result[t].raised
                   /\ Len(parts) = Len(items)
                   /\ \A i \in 1..Len(items) :
                        IF isinstance(items[i], "str")
                        THEN parts[i] = [type |-> "text", text |-> items[i].v]
                        ELSE /\ parts[i].type = "image_url"
                             /\ DOMAIN parts[i] = {"type", "image_url"}
                             /\ Head(parts[i].image_url.url) = "data:image/jpeg;base64,"
                             /\ b64decode(Tail(parts[i].image_url.url)) = items[i].v

\* A text, an image and a text were formatted into three parts in that order.
C18_Witness ==
    \E t \in Callers :
        /\ pc[t] = "formatted"
        /\ req[t].content.v = <<Str(<<"a">>), Bytes(<<255>>), Str(<<"b">>)>>
        /\ result[t] = Returned(
              << [type |-> "text", text |-> <<"a">>],
                 [type |-> "image_url",
                  image_url |-> [url |-> <<"data:image/jpeg;base64,", "/", "w", "=", "=">>]],
                 [type |-> "text", text |-> <<"b">>] >>)


\* C19: calls with the same key are not made one at a time: two workers can
\* both miss and both invoke the network, and whenever a worker writes, the
\* entry of its key is its own response, whatever was there, so that the cache
\* ends with the response of the worker that wrote last.
C19_LastWriteWins ==
    [][\A t \in DOMAIN pc :
          Writes(t) =>
              /\ CacheKey(t) \in DOMAIN cache'[cache_path(req[t].engine)]
              /\ cache'[cache_path(req[t].engine)][CacheKey(t)].response = pending[t]
              /\ result'[t] = Returned(pending[t])]_vars

\* Two workers made the same call at the same time: both missed, both invoked
\* the network, both wrote, and the entry is the response of worker 2, which
\* is not that of worker 1.
C19_Witness ==
    /\ DOMAIN pc = Workers
    /\ \A t \in Workers :
           /\ pc[t] = "done"
           /\ req[t] = Defaults(PoolEngine, Str(<<"c">>))
           /\ hist[t].cache0 = [m \in Models |-> <<>>]
           /\ ~hist[t].hit
           /\ ~hist[t].lookup_io_error
           /\ attempt[t] = 1
           /\ invocations[t] = 1
           /\ hist[t].saved
           /\ ~hist[t].save_io_error
    /\ result[1] # result[2]
    /\ cache["m1"][text_cache_key(PoolEngine, req[2])].response = result[2].v


\* The call of t that has ended and the call before it differ in temperature,
\* max_tokens or top_p and in nothing else.
OptionsOnly(t) ==
    /\ pc[t] = "done"
    /\ prev[t].valid
    /\ prev[t].req # req[t]
    /\ [prev[t].req EXCEPT !.temperature = req[t].temperature,
                           !.max_tokens = req[t].max_tokens,
                           !.top_p = req[t].top_p] = req[t]

\* C20, as stated: the cache key does not take in the sampling options: after
\* a successful call, a call that differs from it only in temperature,
\* max_tokens or top_p makes no network invocation and returns the first
\* call's cached result.
C20_OptionsNotInKey ==
    \A t \in Callers :
        (/\ OptionsOnly(t)
         /\ req[t].engine.enable_cache
         /\ IsSuccess(prev[t].result))
            => /\ invocations[t] = 0
               /\ result[t] = prev[t].result

\* C20, amended: the same when the first call's write and the second call's
\* lookup met no storage error.
C20_OptionsNotInKeyNoStorageError ==
    \A t \in Callers :
        (/\ OptionsOnly(t)
         /\ req[t].engine.enable_cache
         /\ IsSuccess(prev[t].result)
         /\ ~prev[t].hist.save_io_error
         /\ ~hist[t].lookup_io_error)
            => /\ invocations[t] = 0
               /\ hist[t].hit
               /\ ~hist[t].saved
               /\ result[t] = prev[t].result

\* A call that differs from the successful call before it in max_tokens and
\* top_p, or in temperature, was served from the cache although the provider
\* would have answered it otherwise.
C20_Witness ==
    \E t \in Callers :
        /\ OptionsOnly(t)
        /\ req[t].engine.enable_cache
        /\ IsSuccess(prev[t].result)
        /\ prev[t].invocations = 1
        /\ invocations[t] = 0
        /\ result[t] = prev[t].result
        /\ remote[t].kind = "completion"
        /\ remote[t].content # result[t].v

====
